---- MODULE Spec2Model ----
(***************************************************************************)
(* Model of the two calendar colour-hours scripts:                         *)
(*   simple_color_hours.py          (label-based variant,   "simple")      *)
(*   weekly_calendar_color_hours.py (raw-color-id variant,  "weekly")      *)
(*                                                                         *)
(* Time is local wall-clock time in whole seconds.  Both scripts build     *)
(* every datetime with the same tzinfo object, so Python compares and      *)
(* subtracts them as naive wall-clock values; an integer time line is      *)
(* therefore exact.  Day 0 of the time line is a Monday, so that           *)
(* date.weekday() (Monday=0 .. Sunday=6) is day % 7.                       *)
(***************************************************************************)
EXTENDS Integers, Sequences, FiniteSets, TLC

VARIABLES
    variant,          \* which script runs: "simple" or "weekly"
    now,              \* datetime.now(tz): [day, sec]
    count_all_day,    \* args.count_all_day / COUNT_ALL_DAY_AS_24H and not args.ignore_all_day
    service,          \* what the Calendar API will answer: colour tables and calendars
    pc,               \* position of main()
    week_start,       \* start / week_start
    week_end,         \* end / week_end
    event_colors,     \* event colour table, id -> hex, in iteration order
    calendar_colors,  \* calendar colour table, id -> hex
    calendars,        \* the calendars to scan
    cal_idx,          \* position of "for cal in calendars"
    cal_events,       \* events fetched for the current calendar
    evt_idx,          \* position of "for evt in cal_events"
    seconds_by,       \* seconds_by_label / seconds_by_color_id, in insertion order
    events_total,     \* total_events / events_total
    processed,        \* history of the loop body: one record per event iterated
    rows,             \* report rows <<key, hours in hundredths>>
    total_hours,      \* total_hours, in hundredths of an hour
    clip_in,          \* arguments handed to the interval clipper
    clip_out          \* results of clip and clamp_interval on clip_in

vars == <<variant, now, count_all_day, service, pc, week_start, week_end,
          event_colors, calendar_colors, calendars, cal_idx, cal_events,
          evt_idx, seconds_by, events_total, processed, rows, total_hours,
          clip_in, clip_out>>

runVars == <<variant, now, count_all_day, service, pc, week_start, week_end,
             event_colors, calendar_colors, calendars, cal_idx, cal_events,
             evt_idx, seconds_by, events_total, processed, rows, total_hours>>

-----------------------------------------------------------------------------
(* Bounds of the explored inputs *)

\* first day of the range of "today" that is explored
FirstDay == 14

\* number of consecutive days explored as "today" (every weekday twice)
NumDays == 14

\* longest event list one calendar page returns
MaxEvents == 2

\* largest time value handed to the interval clipper
MaxTime == 4

-----------------------------------------------------------------------------
(* Python values *)

\* None, where a string is expected
NoneVal == "None"

\* None, where a hex string (a sequence of characters) is expected
NoneHex == <<"None">>

Max(a, b) == IF a >= b THEN a ELSE b

Min(a, b) == IF a <= b THEN a ELSE b

\* timedelta(days=1) in seconds
Day == 24 * 3600

\* timedelta(days=n)
timedelta_days(n) == n * Day

-----------------------------------------------------------------------------
(* Week window *)

\* now.replace(hour=0, minute=0, second=0, microsecond=0)
Midnight(n) == n.day * Day

\* datetime.weekday(): Monday=0 .. Sunday=6
weekday(t) == (t \div Day) % 7

get_last_week_window_monday(n) ==
    LET today == Midnight(n)
        last_sunday == IF weekday(today) = 6
                         THEN today - timedelta_days(7)
                         ELSE today - timedelta_days(weekday(today))
    IN  [start |-> last_sunday, end |-> last_sunday + timedelta_days(7)]

\* simple_color_hours.get_last_week_window
get_last_week_window(n) ==
    LET today == Midnight(n)
        days_since_sunday == IF weekday(today) = 6
                               THEN 0
                               ELSE (weekday(today) + 1) % 7
        last_sunday == IF weekday(today) = 6
                         THEN today - timedelta_days(7)
                         ELSE today - timedelta_days(days_since_sunday)
        start == last_sunday
        end == start + timedelta_days(7)
    IN  [start |-> start, end |-> end]

last_sun_to_sat_monday(n) ==
    LET today == Midnight(n)
        end == today - timedelta_days(weekday(today) % 7)
    IN  [start |-> end - timedelta_days(7), end |-> end]

\* weekly_calendar_color_hours.last_sun_to_sat
last_sun_to_sat(n) ==
    LET today == Midnight(n)
        days_since_last_sun == (weekday(today) + 1) % 7
        end == today - timedelta_days(days_since_last_sun)
        start == end - timedelta_days(7)
    IN  [start |-> start, end |-> end]

-----------------------------------------------------------------------------
(* Interval clipper *)

clip_no_empty_check(a, b, lo, hi) ==
    LET s == Max(a, lo)
        e == Min(b, hi)
    IN  IF s > e THEN [none |-> TRUE, s |-> 0, e |-> 0]
                 ELSE [none |-> FALSE, s |-> s, e |-> e]

clip_keeps_end(a, b, lo, hi) ==
    LET s == Max(a, lo)
        e == b
    IN  IF s >= e THEN [none |-> TRUE, s |-> 0, e |-> 0]
                  ELSE [none |-> FALSE, s |-> s, e |-> e]

\* simple_color_hours.clip; none stands for the result None
clip(a, b, lo, hi) ==
    LET s == Max(a, lo)
        e == Min(b, hi)
    IN  IF s >= e THEN [none |-> TRUE, s |-> 0, e |-> 0]
                  ELSE [none |-> FALSE, s |-> s, e |-> e]

\* weekly_calendar_color_hours.clamp_interval
clamp_interval(start, end, clamp_start, clamp_end) ==
    LET s == Max(start, clamp_start)
        e == Min(end, clamp_end)
    IN  IF s >= e THEN [none |-> TRUE, s |-> 0, e |-> 0]
                  ELSE [none |-> FALSE, s |-> s, e |-> e]

-----------------------------------------------------------------------------
(* Colour resolution of the label-based variant.                           *)
(* A hex string is the sequence of its characters.                         *)

\* Your mapping: Google EVENT color IDs ("1".."11") -> label
CUSTOM_COLOR_NAMES ==
    [cid \in {"1", "2", "3", "4", "5", "6", "7", "8", "9", "10", "11"} |->
        CASE cid = "1"  -> "Class"
          [] cid = "2"  -> "Side-Hustle"
          [] cid = "3"  -> "Personal-Development"
          [] cid = "4"  -> "Faith"
          [] cid = "5"  -> "Network"
          [] cid = "6"  -> "Test"
          [] cid = "7"  -> "Money"
          [] cid = "8"  -> "Sleep"
          [] cid = "9"  -> "Exercise"
          [] cid = "10" -> "Project"
          [] cid = "11" -> "Meal"]

\* bool(x) of a hex string or None
Truthy(hx) == hx # NoneHex /\ hx # <<>>

\* bool(x) of a color id string or None
TruthyId(cid) == cid # NoneVal /\ cid # ""

LowerDigits == <<"0", "1", "2", "3", "4", "5", "6", "7", "8", "9",
                 "a", "b", "c", "d", "e", "f">>

UpperDigits == <<"0", "1", "2", "3", "4", "5", "6", "7", "8", "9",
                 "A", "B", "C", "D", "E", "F">>

IsHexDigit(c) == \E i \in 1..16 : LowerDigits[i] = c \/ UpperDigits[i] = c

DigitVal(c) == (CHOOSE i \in 1..16 : LowerDigits[i] = c \/ UpperDigits[i] = c) - 1

\* int(x, 16) of a slice x of at most two characters: surrounding blanks and
\* one sign are accepted, at least one digit is required; ok = FALSE stands
\* for ValueError
int16(x) ==
    CASE Len(x) = 0 -> [ok |-> FALSE, v |-> 0]
      [] Len(x) = 1 -> IF IsHexDigit(x[1]) THEN [ok |-> TRUE, v |-> DigitVal(x[1])]
                                           ELSE [ok |-> FALSE, v |-> 0]
      [] OTHER ->
           CASE IsHexDigit(x[1]) /\ IsHexDigit(x[2]) ->
                    [ok |-> TRUE, v |-> 16 * DigitVal(x[1]) + DigitVal(x[2])]
             [] x[1] \in {"+", " "} /\ IsHexDigit(x[2]) -> [ok |-> TRUE, v |-> DigitVal(x[2])]
             [] x[1] = "-" /\ IsHexDigit(x[2]) -> [ok |-> TRUE, v |-> 0 - DigitVal(x[2])]
             [] IsHexDigit(x[1]) /\ x[2] = " " -> [ok |-> TRUE, v |-> DigitVal(x[1])]
             [] OTHER -> [ok |-> FALSE, v |-> 0]

\* hx.lstrip('#')
RECURSIVE lstrip_hash(_)
lstrip_hash(hx) ==
    IF Len(hx) > 0 /\ hx[1] = "#" THEN lstrip_hash(Tail(hx)) ELSE hx

\* hx[i:i+2] with i counted from 0, as Python slices it
Slice2(hx, i) == SubSeq(hx, i + 1, Min(i + 2, Len(hx)))

\* simple_color_hours.hex_to_rgb; ok = FALSE stands for the exception raised
hex_to_rgb(hx) ==
    LET h == lstrip_hash(hx)
        r == int16(Slice2(h, 0))
        g == int16(Slice2(h, 2))
        b == int16(Slice2(h, 4))
    IN  IF hx = NoneHex \/ ~r.ok \/ ~g.ok \/ ~b.ok
          THEN [ok |-> FALSE, r |-> 0, g |-> 0, b |-> 0]
          ELSE [ok |-> TRUE, r |-> r.v, g |-> g.v, b |-> b.v]

\* (r-er)**2 + (g-eg)**2 + (b-eb)**2
Dist(p, q) == (p.r - q.r) * (p.r - q.r) + (p.g - q.g) * (p.g - q.g)
              + (p.b - q.b) * (p.b - q.b)

\* the loop of nearest_event_color_id from entry i on
RECURSIVE NearestLoop(_, _, _, _, _)
NearestLoop(rgb, event_hex_map, i, best_id, best_d) ==
    IF i > Len(event_hex_map) THEN [raised |-> FALSE, id |-> best_id]
    ELSE LET cid == event_hex_map[i][1]
             ehx == event_hex_map[i][2]
         IN  IF ~Truthy(ehx)
               THEN NearestLoop(rgb, event_hex_map, i + 1, best_id, best_d)
               ELSE LET e == hex_to_rgb(ehx)
                    IN  IF ~e.ok THEN [raised |-> TRUE, id |-> NoneVal]
                        ELSE IF Dist(rgb, e) < best_d
                          THEN NearestLoop(rgb, event_hex_map, i + 1, cid, Dist(rgb, e))
                          ELSE NearestLoop(rgb, event_hex_map, i + 1, best_id, best_d)

\* simple_color_hours.nearest_event_color_id; raised = TRUE stands for the
\* exception that leaves the function
nearest_event_color_id(hex_color, event_hex_map) ==
    LET p == hex_to_rgb(hex_color)
    IN  IF ~p.ok THEN [raised |-> FALSE, id |-> NoneVal]
                 ELSE NearestLoop(p, event_hex_map, 1, NoneVal, 10^9)

\* dict.get(key) on a table kept as a sequence of <<key, value>>
RECURSIVE TableGet(_, _, _)
TableGet(table, key, i) ==
    IF i > Len(table) THEN NoneHex
    ELSE IF table[i][1] = key THEN table[i][2] ELSE TableGet(table, key, i + 1)

\* calendar_colors.get(cal_default_id) if cal_default_id else None
cal_default_hex_of(cal_default_id, cal_colors) ==
    IF TruthyId(cal_default_id) THEN TableGet(cal_colors, cal_default_id, 1) ELSE NoneHex

\* CUSTOM_COLOR_NAMES.get(nearest_id, "Miscellaneous")
LabelOrMisc(id) ==
    IF id \in DOMAIN CUSTOM_COLOR_NAMES THEN CUSTOM_COLOR_NAMES[id] ELSE "Miscellaneous"

decide_label_default_first(cid, cal_default_hex, ev_colors) ==
    IF Truthy(cal_default_hex)
      THEN LET n == nearest_event_color_id(cal_default_hex, ev_colors)
           IN  [raised |-> n.raised, label |-> LabelOrMisc(n.id)]
      ELSE IF TruthyId(cid) /\ cid \in DOMAIN CUSTOM_COLOR_NAMES
        THEN [raised |-> FALSE, label |-> CUSTOM_COLOR_NAMES[cid]]
        ELSE [raised |-> FALSE, label |-> "Miscellaneous"]

\* "Decide label" in simple_color_hours.main
decide_label(cid, cal_default_hex, ev_colors) ==
    IF TruthyId(cid) /\ cid \in DOMAIN CUSTOM_COLOR_NAMES
      THEN [raised |-> FALSE, label |-> CUSTOM_COLOR_NAMES[cid]]
      ELSE IF Truthy(cal_default_hex)
        THEN LET n == nearest_event_color_id(cal_default_hex, ev_colors)
             IN  [raised |-> n.raised, label |-> LabelOrMisc(n.id)]
        ELSE [raised |-> FALSE, label |-> "Miscellaneous"]

\* the aggregation key in weekly_calendar_color_hours.main:
\* evt.get("colorId") or cal_default_color_id or "default"
color_key(cid, cal_default_color_id) ==
    IF TruthyId(cid) THEN cid
    ELSE IF TruthyId(cal_default_color_id) THEN cal_default_color_id
    ELSE "default"

-----------------------------------------------------------------------------
(* Events *)

\* What events().list answers depends on the window asked for: an event of
\* the service is kept relative to timeMin and placed on the time line when
\* it is fetched.  A timed event carries "dateTime" values (seconds), an
\* all-day event carries "date" values (days, end date exclusive).
Materialize(tpl, time_min) ==
    IF tpl.kind = "dateTime"
      THEN [kind |-> "dateTime", start |-> time_min + tpl.s, end |-> time_min + tpl.e,
            colorId |-> tpl.colorId]
      ELSE [kind |-> "date", start |-> (time_min \div Day) + tpl.s,
            end |-> (time_min \div Day) + tpl.e, colorId |-> tpl.colorId]

\* parse_event_times of both scripts: (start, end, is_all_day) in local time.
\* Every event the API returns has a dateTime or a date; the third branch of
\* the raw-color-id script (neither: zero-length at now) is not explored.
parse_event_times(evt) ==
    IF evt.kind = "dateTime"
      THEN [s |-> evt.start, e |-> evt.end, is_all_day |-> FALSE]
      ELSE [s |-> evt.start * Day, e |-> evt.end * Day, is_all_day |-> TRUE]

\* the pages of one events().list pagination, read in order: the items of
\* all pages, or raised = TRUE when a request fails
RECURSIVE ReadPages(_, _, _)
ReadPages(pages, i, events) ==
    IF i > Len(pages) THEN [raised |-> FALSE, events |-> events]
    ELSE IF ~pages[i].ok THEN [raised |-> TRUE, events |-> <<>>]
    ELSE ReadPages(pages, i + 1, events \o pages[i].items)

\* simple_color_hours.fetch_events_for_calendar: no handler, the exception
\* of a failed request leaves the function
fetch_events_for_calendar_simple(pages) == ReadPages(pages, 1, <<>>)

\* weekly_calendar_color_hours.fetch_events_for_calendar: every exception is
\* caught and answered with []
fetch_events_for_calendar_weekly(pages) ==
    LET r == ReadPages(pages, 1, <<>>)
    IN  IF r.raised THEN [raised |-> FALSE, events |-> <<>>] ELSE r

-----------------------------------------------------------------------------
(* Aggregation and report *)

\* position of key in the totals, 0 when absent
KeyIndex(sb, key) ==
    IF \E i \in 1..Len(sb) : sb[i][1] = key
      THEN CHOOSE i \in 1..Len(sb) : sb[i][1] = key
      ELSE 0

AddSecondsOverwrite(sb, key, dur) ==
    IF KeyIndex(sb, key) = 0
      THEN Append(sb, <<key, dur>>)
      ELSE [sb EXCEPT ![KeyIndex(sb, key)] = <<key, dur>>]

\* seconds_by[key] += dur on a defaultdict(float); a new key goes last
AddSeconds(sb, key, dur) ==
    IF KeyIndex(sb, key) = 0
      THEN Append(sb, <<key, dur>>)
      ELSE [sb EXCEPT ![KeyIndex(sb, key)] = <<key, sb[KeyIndex(sb, key)][2] + dur>>]

\* the halves n + 0.5 hundredths (seconds = 36n + 18, below one hour) that
\* CPython's round(secs/3600.0, 2) rounds up, decided by the double nearest
\* to secs/3600
TieRoundsUp ==
    {18, 90, 126, 198, 234, 306, 342, 414, 486, 594, 702, 810, 918, 954, 990,
     1134, 1170, 1206, 1350, 1386, 1422, 1458, 1602, 1638, 1674, 1818, 1854,
     1890, 1926, 1962, 1998, 2286, 2322, 2358, 2394, 2430, 2466, 2718, 2754,
     2790, 2826, 2862, 2898, 3150, 3186, 3222, 3258, 3294, 3330, 3366}

\* round(secs / 3600.0, 2), in hundredths of an hour.  One hundredth is 36
\* seconds.  A half at or above one hour that is exact in binary
\* (secs % 900 = 450) goes to the even neighbour; the event durations of this
\* model produce no other half.
HoursRounded(secs) ==
    LET q == secs \div 36
        r == secs % 36
    IN  CASE r < 18 -> q
          [] r > 18 -> q + 1
          [] OTHER  -> IF secs < 3600
                         THEN (IF secs \in TieRoundsUp THEN q + 1 ELSE q)
                         ELSE (IF q % 2 = 0 THEN q ELSE q + 1)

\* cid in table, for a table kept as a sequence of <<key, value>>
HasKey(table, cid) == \E i \in 1..Len(table) : table[i][1] = cid

\* weekly_calendar_color_hours.main.color_label: the event palette is asked
\* first, then the calendar palette; shown tells which text is printed
color_label(cid) ==
    IF HasKey(event_colors, cid)
      THEN [shown |-> "event", hex |-> TableGet(event_colors, cid, 1)]
      ELSE IF HasKey(calendar_colors, cid)
        THEN [shown |-> "default", hex |-> TableGet(calendar_colors, cid, 1)]
        ELSE [shown |-> "n/a", hex |-> NoneHex]

\* rows = [(key, round(secs/3600.0, 2)) for key, secs in seconds_by.items()];
\* the raw-color-id script adds the "color" column
MakeRows(sb) ==
    [i \in 1..Len(sb) |->
        IF variant = "weekly"
          THEN <<sb[i][1], HoursRounded(sb[i][2]), color_label(sb[i][1])>>
          ELSE <<sb[i][1], HoursRounded(sb[i][2])>>]

\* one row put into a list already sorted by hours, descending, behind its equals
RECURSIVE InsertRow(_, _)
InsertRow(sorted, row) ==
    IF sorted = <<>> THEN <<row>>
    ELSE IF Head(sorted)[2] >= row[2] THEN <<Head(sorted)>> \o InsertRow(Tail(sorted), row)
    ELSE <<row>> \o sorted

\* rows.sort(key=hours, reverse=True): stable
RECURSIVE SortRows(_)
SortRows(rs) ==
    IF rs = <<>> THEN <<>>
    ELSE InsertRow(SortRows(SubSeq(rs, 1, Len(rs) - 1)), rs[Len(rs)])

RECURSIVE SumColumn(_, _)
SumColumn(s, col) == IF s = <<>> THEN 0 ELSE Head(s)[col] + SumColumn(Tail(s), col)

\* total_hours = sum(hrs for _, hrs in rows)
total_of_rows(rs) == SumColumn(rs, 2)

\* percentage = (hrs / total_hours * 100) if total_hours > 0 else 0, as the
\* exact fraction num/den before it is formatted
percentage(hrs, total) ==
    IF total > 0 THEN [num |-> hrs * 100, den |-> total] ELSE [num |-> 0, den |-> 1]

-----------------------------------------------------------------------------
(* The run of main() *)

\* start, end = get_last_week_window(args.tz) /
\* week_start, week_end = last_sun_to_sat(tzname)
ResolveWindow ==
    /\ pc = "start"
    /\ LET w == IF variant = "simple" THEN get_last_week_window(now)
                                      ELSE last_sun_to_sat(now)
       IN  /\ week_start' = w.start
           /\ week_end' = w.end
    /\ pc' = "colors"
    /\ UNCHANGED <<variant, now, count_all_day, service, event_colors,
                   calendar_colors, calendars, cal_idx, cal_events, evt_idx,
                   seconds_by, events_total, processed, rows, total_hours,
                   clip_in, clip_out>>

\* get_colors_map, the calendar list, and the empty totals
LoadTables ==
    /\ pc = "colors"
    /\ event_colors' = service.event_colors
    /\ calendar_colors' = service.calendar_colors
    /\ calendars' = service.calendars
    /\ seconds_by' = <<>>
    /\ events_total' = 0
    /\ cal_idx' = 1
    /\ pc' = "fetch"
    /\ UNCHANGED <<variant, now, count_all_day, service, week_start, week_end,
                   cal_events, evt_idx, processed, rows, total_hours,
                   clip_in, clip_out>>

\* head of "for cal in calendars": fetch the calendar's events
FetchEvents ==
    /\ pc = "fetch"
    /\ cal_idx <= Len(calendars)
    /\ LET pages == calendars[cal_idx].pages
           r == IF variant = "simple" THEN fetch_events_for_calendar_simple(pages)
                                      ELSE fetch_events_for_calendar_weekly(pages)
           evts == [i \in 1..Len(r.events) |-> Materialize(r.events[i], week_start)]
       IN  IF r.raised
             THEN /\ pc' = "aborted"
                  /\ UNCHANGED <<cal_events, evt_idx, events_total>>
             ELSE /\ pc' = "events"
                  /\ cal_events' = evts
                  /\ evt_idx' = 1
                  /\ events_total' = events_total + Len(evts)
    /\ UNCHANGED <<variant, now, count_all_day, service, week_start, week_end,
                   event_colors, calendar_colors, calendars, cal_idx, seconds_by,
                   processed, rows, total_hours, clip_in, clip_out>>

\* the key the loop body adds the event's duration to
KeyOf(evt, cal) ==
    IF variant = "simple"
      THEN LET d == decide_label(evt.colorId,
                                 cal_default_hex_of(cal.colorId, calendar_colors),
                                 event_colors)
           IN  [raised |-> d.raised, key |-> d.label]
      ELSE [raised |-> FALSE, key |-> color_key(evt.colorId, cal.colorId)]

\* the overlap of the event with the window
Overlap(t) ==
    IF variant = "simple" THEN clip(t.s, t.e, week_start, week_end)
                          ELSE clamp_interval(t.s, t.e, week_start, week_end)

\* "if is_all_day and not count_all_day: continue"
AllDaySkipped(t) == t.is_all_day /\ ~count_all_day

\* body of "for evt in cal_events"
ProcessEvent ==
    /\ pc = "events"
    /\ evt_idx <= Len(cal_events)
    /\ LET evt == cal_events[evt_idx]
           cal == calendars[cal_idx]
           t == parse_event_times(evt)
           c == Overlap(t)
           k == KeyOf(evt, cal)
           entry(outcome, key) == [evt |-> evt, cal |-> cal_idx, outcome |-> outcome,
                                   key |-> key]
       IN  CASE c.none ->
                  /\ processed' = Append(processed, entry("no_overlap", NoneVal))
                  /\ evt_idx' = evt_idx + 1
                  /\ UNCHANGED <<seconds_by, pc>>
             [] ~c.none /\ AllDaySkipped(t) ->
                  /\ processed' = Append(processed, entry("all_day_skipped", NoneVal))
                  /\ evt_idx' = evt_idx + 1
                  /\ UNCHANGED <<seconds_by, pc>>
             [] ~c.none /\ ~AllDaySkipped(t) /\ k.raised ->
                  /\ processed' = Append(processed, entry("raised", NoneVal))
                  /\ pc' = "aborted"
                  /\ UNCHANGED <<seconds_by, evt_idx>>
             [] OTHER ->
                  /\ processed' = Append(processed, entry("counted", k.key))
                  /\ seconds_by' = AddSeconds(seconds_by, k.key, c.e - c.s)
                  /\ evt_idx' = evt_idx + 1
                  /\ UNCHANGED pc
    /\ UNCHANGED <<variant, now, count_all_day, service, week_start, week_end,
                   event_colors, calendar_colors, calendars, cal_idx, cal_events,
                   events_total, rows, total_hours, clip_in, clip_out>>

\* "for evt in cal_events" is exhausted: on to the next calendar
NextCalendar ==
    /\ pc = "events"
    /\ evt_idx > Len(cal_events)
    /\ cal_idx' = cal_idx + 1
    /\ pc' = "fetch"
    /\ UNCHANGED <<variant, now, count_all_day, service, week_start, week_end,
                   event_colors, calendar_colors, calendars, cal_events, evt_idx,
                   seconds_by, events_total, processed, rows, total_hours,
                   clip_in, clip_out>>

\* after the loops: rows, sort, total.  With no totals the label-based
\* script prints "No events found" and returns, the other prints the same
\* line under its header; both leave rows empty.
Report ==
    /\ pc = "fetch"
    /\ cal_idx > Len(calendars)
    /\ rows' = SortRows(MakeRows(seconds_by))
    /\ total_hours' = total_of_rows(SortRows(MakeRows(seconds_by)))
    /\ pc' = "done"
    /\ UNCHANGED <<variant, now, count_all_day, service, week_start, week_end,
                   event_colors, calendar_colors, calendars, cal_idx, cal_events,
                   evt_idx, seconds_by, events_total, processed,
                   clip_in, clip_out>>

-----------------------------------------------------------------------------
(* The interval clipper on its own *)

Unset == [none |-> TRUE, s |-> 0 - 1, e |-> 0 - 1]

ApplyClip ==
    /\ pc = "clipper"
    /\ clip_out.clip = Unset
    /\ clip_out' = [clip_out EXCEPT
                      !.clip = clip(clip_in.a, clip_in.b, clip_in.lo, clip_in.hi)]
    /\ UNCHANGED <<runVars, clip_in>>

ApplyClampInterval ==
    /\ pc = "clipper"
    /\ clip_out.clamp = Unset
    /\ clip_out' = [clip_out EXCEPT
                      !.clamp = clamp_interval(clip_in.a, clip_in.b, clip_in.lo, clip_in.hi)]
    /\ UNCHANGED <<runVars, clip_in>>

\* clip with the event interval and the window exchanged
ApplyClipSwapped ==
    /\ pc = "clipper"
    /\ clip_out.clip_swapped = Unset
    /\ clip_out' = [clip_out EXCEPT
                      !.clip_swapped = clip(clip_in.lo, clip_in.hi, clip_in.a, clip_in.b)]
    /\ UNCHANGED <<runVars, clip_in>>

\* clamp_interval with the event interval and the window exchanged
ApplyClampIntervalSwapped ==
    /\ pc = "clipper"
    /\ clip_out.clamp_swapped = Unset
    /\ clip_out' = [clip_out EXCEPT
                      !.clamp_swapped =
                          clamp_interval(clip_in.lo, clip_in.hi, clip_in.a, clip_in.b)]
    /\ UNCHANGED <<runVars, clip_in>>

\* clip of the overlap clip returned, against the same window
ApplyClipAgain ==
    /\ pc = "clipper"
    /\ clip_out.clip # Unset
    /\ ~clip_out.clip.none
    /\ clip_out.clip_again = Unset
    /\ clip_out' = [clip_out EXCEPT
                      !.clip_again = clip(clip_out.clip.s, clip_out.clip.e,
                                          clip_in.lo, clip_in.hi)]
    /\ UNCHANGED <<runVars, clip_in>>

\* clamp_interval of the overlap clamp_interval returned, against the same window
ApplyClampIntervalAgain ==
    /\ pc = "clipper"
    /\ clip_out.clamp # Unset
    /\ ~clip_out.clamp.none
    /\ clip_out.clamp_again = Unset
    /\ clip_out' = [clip_out EXCEPT
                      !.clamp_again = clamp_interval(clip_out.clamp.s, clip_out.clamp.e,
                                                     clip_in.lo, clip_in.hi)]
    /\ UNCHANGED <<runVars, clip_in>>

-----------------------------------------------------------------------------
(* Explored inputs.  Day 0 is Monday 2023-12-18, so day 20 is Sunday       *)
(* 2024-01-07 and day 27 is Sunday 2024-01-14.                             *)

\* Google's event palette
EventPalette ==
    << <<"1", <<"#", "a", "4", "b", "d", "f", "c">>>>,
       <<"2", <<"#", "7", "a", "e", "7", "b", "f">>>>,
       <<"3", <<"#", "d", "b", "a", "d", "f", "f">>>>,
       <<"4", <<"#", "f", "f", "8", "8", "7", "c">>>>,
       <<"5", <<"#", "f", "b", "d", "7", "5", "b">>>>,
       <<"6", <<"#", "f", "f", "b", "8", "7", "8">>>>,
       <<"7", <<"#", "4", "6", "d", "6", "d", "b">>>>,
       <<"8", <<"#", "e", "1", "e", "1", "e", "1">>>>,
       <<"9", <<"#", "5", "4", "8", "4", "e", "d">>>>,
       <<"10", <<"#", "5", "1", "b", "7", "4", "9">>>>,
       <<"11", <<"#", "d", "c", "2", "1", "2", "7">>>> >>

\* two entries at the same distance from "#000001"
EventTie ==
    << <<"1", <<"#", "0", "0", "0", "0", "0", "0">>>>,
       <<"2", <<"0", "0", "0", "0", "0", "2">>>> >>

\* no entry has a hex
EventNoHex == << <<"3", NoneHex>>, <<"8", <<>>>> >>

\* an id outside the label table, with the hex of calendar color "14"
EventExtra ==
    EventPalette \o << <<"12", <<"#", "9", "f", "e", "1", "E", "7">>>> >>

\* a malformed hex in the first entry
EventBadFirst ==
    << <<"1", <<"#", "g", "g", "0", "0", "0", "0">>>>,
       <<"3", <<"#", "d", "b", "a", "d", "f", "f">>>> >>

\* a malformed (too short) hex in a later entry
EventBadLater ==
    << <<"3", <<"#", "d", "b", "a", "d", "f", "f">>>>,
       <<"4", <<"#", "f", "f", "f">>>> >>

EventTables == {EventPalette, EventTie, EventNoHex, EventExtra, EventBadFirst,
                EventBadLater, <<>>}

\* calendar color table: "14" as Google has it, "3" with the hex of event
\* color "3", "1" between the two entries of EventTie, "2" malformed, "4"
\* without a hex
CalendarTable ==
    << <<"14", <<"#", "9", "f", "e", "1", "e", "7">>>>,
       <<"3", <<"#", "d", "b", "a", "d", "f", "f">>>>,
       <<"1", <<"#", "0", "0", "0", "0", "0", "1">>>>,
       <<"2", <<"#", "z", "z", "0", "0", "0", "0">>>>,
       <<"4", NoneHex>> >>

CalendarColorIds == {NoneVal, "", "14", "3", "1", "2", "4", "99"}

EventColorIds == {NoneVal, "", "8", "12"}

Timed(s, e, cid) == [kind |-> "dateTime", s |-> s, e |-> e, colorId |-> cid]

AllDay(s, e, cid) == [kind |-> "date", s |-> s, e |-> e, colorId |-> cid]

\* events relative to the window start, in the order of their start
\* (orderBy="startTime"): covering the whole window; all-day from the day
\* before, for two days; wholly before the window; straddling the window
\* start; zero-length; two ten-second events of different colors; Monday
\* 06:00 to 07:30
EventPool ==
    << Timed(0 - Day, 8 * Day, NoneVal),
       AllDay(0 - 1, 1, NoneVal),
       Timed(0 - 7200, 0 - 3600, NoneVal),
       Timed(0 - 3600, 5400, NoneVal),
       Timed(100, 100, "8"),
       Timed(3600, 3610, "8"),
       Timed(7200, 7210, "9"),
       Timed(Day + 21600, Day + 27000, "9") >>

\* event lists of at most n events, ordered by start
EventLists(n) ==
    LET idx == {s \in UNION {[1..k -> 1..Len(EventPool)] : k \in 0..n} :
                  \A i \in 1..Len(s) : \A j \in 1..Len(s) : i < j => s[i] <= s[j]}
    IN  {[i \in 1..Len(s) |-> EventPool[s[i]]] : s \in idx}

Page(items) == [ok |-> TRUE, items |-> items]

ErrPage == [ok |-> FALSE, items |-> <<>>]

Calendar(cid, pages) == [colorId |-> cid, pages |-> pages]

\* calendar lists around one calendar with the given events: alone, present
\* twice, after a calendar whose first request fails, before a calendar
\* whose second request fails, before a calendar answered in two pages
CalendarLists(items) ==
    LET A == Calendar("14", <<Page(items)>>)
    IN  { <<A>>,
          <<A, Calendar("3", <<Page(items)>>)>>,
          <<Calendar("3", <<ErrPage>>), A>>,
          <<A, Calendar("3", <<Page(<<EventPool[6]>>), ErrPage>>)>>,
          <<A, Calendar("3", <<Page(<<EventPool[6]>>), Page(<<EventPool[7]>>)>>)>> }

Nows == {[day |-> d, sec |-> s] : d \in FirstDay..(FirstDay + NumDays - 1),
                                  s \in {0, 1, 12 * 3600, Day - 1}}

\* noon of Sunday 2024-01-14
BaseNow == [day |-> 27, sec |-> 12 * 3600]

Env(v, n, cad, ec, cc, cals) ==
    [variant |-> v, now |-> n, count_all_day |-> cad,
     service |-> [event_colors |-> ec, calendar_colors |-> cc, calendars |-> cals]]

\* every day and time of day, one event
WindowEnvs ==
    {Env(v, n, TRUE, EventPalette, CalendarTable,
         <<Calendar("14", <<Page(<<EventPool[8]>>)>>)>>) :
       v \in {"simple", "weekly"}, n \in Nows}

\* every event list on every calendar list, with and without all-day counting
AggregationEnvs ==
    {Env(v, BaseNow, cad, EventPalette, CalendarTable, cals) :
       v \in {"simple", "weekly"}, cad \in BOOLEAN,
       cals \in UNION {CalendarLists(items) : items \in EventLists(MaxEvents)}}

\* every color table, calendar color and event color, one event
ColorEnvs ==
    {Env(v, BaseNow, TRUE, ec, CalendarTable,
         <<Calendar(calcid, <<Page(<<Timed(3600, 9000, cid)>>)>>)>>) :
       v \in {"simple", "weekly"}, ec \in EventTables,
       calcid \in CalendarColorIds, cid \in EventColorIds}

\* Google's calendar palette, the ids used here
CalendarPalette ==
    << <<"3", <<"#", "f", "8", "3", "a", "2", "2">>>>,
       <<"8", <<"#", "1", "6", "a", "7", "6", "5">>>>,
       <<"9", <<"#", "7", "b", "d", "1", "4", "8">>>>,
       <<"14", <<"#", "9", "f", "e", "1", "e", "7">>>> >>

\* an event of explicit color "8" and an event without a color, on one
\* calendar or on two, for calendar default colors inside and outside the
\* range of the event color ids
PaletteEnvs ==
    LET colored == Timed(3600, 9000, "8")
        plain == Timed(10800, 14400, NoneVal)
    IN  {Env(v, BaseNow, TRUE, EventPalette, CalendarPalette, cals) :
           v \in {"simple", "weekly"},
           cals \in UNION {
             { <<Calendar(c1, <<Page(<<colored, plain>>)>>)>>,
               <<Calendar(c1, <<Page(<<plain>>)>>), Calendar(c2, <<Page(<<colored>>)>>)>> } :
             c1 \in {NoneVal, "8", "14"}, c2 \in {NoneVal, "8", "14"}}}

Envs == WindowEnvs \cup AggregationEnvs \cup ColorEnvs \cup PaletteEnvs

IdleClip ==
    /\ clip_in = [a |-> 0, b |-> 0, lo |-> 0, hi |-> 0]
    /\ clip_out = [clip |-> Unset, clamp |-> Unset,
                   clip_swapped |-> Unset, clamp_swapped |-> Unset,
                   clip_again |-> Unset, clamp_again |-> Unset]

Init ==
    /\ \E env \in Envs :
         /\ variant = env.variant
         /\ now = env.now
         /\ count_all_day = env.count_all_day
         /\ service = env.service
    /\ pc = "start"
    /\ week_start = 0
    /\ week_end = 0
    /\ event_colors = <<>>
    /\ calendar_colors = <<>>
    /\ calendars = <<>>
    /\ cal_idx = 0
    /\ cal_events = <<>>
    /\ evt_idx = 0
    /\ seconds_by = <<>>
    /\ events_total = 0
    /\ processed = <<>>
    /\ rows = <<>>
    /\ total_hours = 0
    /\ IdleClip

Next ==
    \/ ResolveWindow
    \/ LoadTables
    \/ FetchEvents
    \/ ProcessEvent
    \/ NextCalendar
    \/ Report

Spec == Init /\ [][Next]_vars

InitClip ==
    /\ variant = "simple"
    /\ now = BaseNow
    /\ count_all_day = FALSE
    /\ service = [event_colors |-> <<>>, calendar_colors |-> <<>>, calendars |-> <<>>]
    /\ pc = "clipper"
    /\ week_start = 0
    /\ week_end = 0
    /\ event_colors = <<>>
    /\ calendar_colors = <<>>
    /\ calendars = <<>>
    /\ cal_idx = 0
    /\ cal_events = <<>>
    /\ evt_idx = 0
    /\ seconds_by = <<>>
    /\ events_total = 0
    /\ processed = <<>>
    /\ rows = <<>>
    /\ total_hours = 0
    /\ clip_in \in [a : 0..MaxTime, b : 0..MaxTime, lo : 0..MaxTime, hi : 0..MaxTime]
    /\ clip_out = [clip |-> Unset, clamp |-> Unset,
                   clip_swapped |-> Unset, clamp_swapped |-> Unset,
                   clip_again |-> Unset, clamp_again |-> Unset]

NextClip == ApplyClip \/ ApplyClampInterval

SpecClip == InitClip /\ [][NextClip]_vars

NextClipAlgebra ==
    \/ ApplyClip
    \/ ApplyClampInterval
    \/ ApplyClipSwapped
    \/ ApplyClampIntervalSwapped
    \/ ApplyClipAgain
    \/ ApplyClampIntervalAgain

SpecClipAlgebra == InitClip /\ [][NextClipAlgebra]_vars

-----------------------------------------------------------------------------
(* Properties of the week window *)

\* main() has resolved its window
WindowResolved == pc \in {"colors", "fetch", "events", "done", "aborted"}

\* (dow + 1) mod 7 of today's local midnight
daysSinceSunday == ((now.day % 7) + 1) % 7

\* C1: for every current day and time of day, the window of either resolver
\* starts on a Sunday at 00:00, ends exactly 7 calendar days later (the
\* following Sunday 00:00), and start < end.
C1_WindowIsSundayWeek ==
    WindowResolved =>
        /\ week_start % Day = 0
        /\ (week_start \div Day) % 7 = 6
        /\ week_end - week_start = 7 * Day
        /\ (week_end \div Day) % 7 = 6
        /\ week_start < week_end

\* the label-based script has resolved its window late on a Wednesday
C1_Witness ==
    /\ pc = "colors"
    /\ variant = "simple"
    /\ now.day % 7 = 2
    /\ now.sec = Day - 1
    /\ week_start = (now.day - 3) * Day

\* C2 as stated: in both scripts start = today - 7 days when
\* daysSinceSunday = 0 and start = today - daysSinceSunday days otherwise,
\* and end = start + 7 days.
C2_SameRuleInBothScripts ==
    WindowResolved =>
        /\ week_start = IF daysSinceSunday = 0
                          THEN now.day * Day - 7 * Day
                          ELSE now.day * Day - daysSinceSunday * Day
        /\ week_end = week_start + 7 * Day

\* C2 amended: get_last_week_window follows that rule; last_sun_to_sat
\* returns start = today - (daysSinceSunday + 7) days on every day (the two
\* agree on Sundays only); end = start + 7 days in both.
C2_RulePerScript ==
    WindowResolved =>
        /\ variant = "simple" =>
             week_start = IF daysSinceSunday = 0
                            THEN now.day * Day - 7 * Day
                            ELSE now.day * Day - daysSinceSunday * Day
        /\ variant = "weekly" =>
             week_start = now.day * Day - (daysSinceSunday + 7) * Day
        /\ week_end = week_start + 7 * Day

\* the raw-color-id script has resolved its window on a Monday: the week
\* that ended yesterday, not the one that began yesterday
C2_Witness ==
    /\ pc = "colors"
    /\ variant = "weekly"
    /\ now.day % 7 = 0
    /\ week_start = (now.day - 8) * Day
    /\ week_end = (now.day - 1) * Day

\* C3: the window is the last complete week: its end is no later than
\* today's local midnight, on every day of the week.
C3_WindowEndsByToday ==
    WindowResolved => week_end <= now.day * Day

-----------------------------------------------------------------------------
(* Properties of the interval clipper *)

\* what C4 says of one result r of clipping [a, b) to [lo, hi)
ClipperContract(r, a, b, lo, hi) ==
    LET s == IF a >= lo THEN a ELSE lo
        e == IF b <= hi THEN b ELSE hi
    IN  /\ s < e => r = [none |-> FALSE, s |-> s, e |-> e]
        /\ s >= e => r.none
        /\ a = b => r.none
        /\ (b <= lo \/ a >= hi) => r.none
        /\ (a <= lo /\ hi <= b /\ lo < hi) => (~r.none /\ r.s = lo /\ r.e = hi)
        /\ ~r.none => (r.s < r.e /\ a <= r.s /\ r.e <= b /\ lo <= r.s /\ r.e <= hi)

\* C4: clip and clamp_interval return (max(s,start), min(e,end)) when that
\* interval is non-empty and None otherwise; so a zero-length or outside
\* interval gives None, an interval covering the window gives the window,
\* and a returned interval is non-empty and inside both arguments.
C4_ClipperReturnsOverlap ==
    /\ clip_out.clip # Unset =>
         ClipperContract(clip_out.clip, clip_in.a, clip_in.b, clip_in.lo, clip_in.hi)
    /\ clip_out.clamp # Unset =>
         ClipperContract(clip_out.clamp, clip_in.a, clip_in.b, clip_in.lo, clip_in.hi)

\* both clippers have cut [0, 3) to the window [1, 2)
C4_Witness ==
    /\ clip_in = [a |-> 0, b |-> 3, lo |-> 1, hi |-> 2]
    /\ clip_out.clip = [none |-> FALSE, s |-> 1, e |-> 2]
    /\ clip_out.clamp = [none |-> FALSE, s |-> 1, e |-> 2]

-----------------------------------------------------------------------------
(* Properties of the aggregation *)

\* seconds of the event that lie inside the window, from its raw times
SecondsInWindow(evt) ==
    LET s == IF evt.kind = "date" THEN evt.start * Day ELSE evt.start
        e == IF evt.kind = "date" THEN evt.end * Day ELSE evt.end
        lo == IF s > week_start THEN s ELSE week_start
        hi == IF e < week_end THEN e ELSE week_end
    IN  IF lo < hi THEN hi - lo ELSE 0

\* what C5 lets one iterated event add
Contribution(entry) ==
    IF entry.evt.kind = "date" /\ ~count_all_day THEN 0 ELSE SecondsInWindow(entry.evt)

\* sum of the contributions of the events the loop body has completed
RECURSIVE ExpectedSeconds(_)
ExpectedSeconds(log) ==
    IF log = <<>> THEN 0
    ELSE (IF Head(log).outcome = "raised" THEN 0 ELSE Contribution(Head(log)))
         + ExpectedSeconds(Tail(log))

\* sum of the accumulated per-key totals
RECURSIVE TotalSeconds(_)
TotalSeconds(sb) == IF sb = <<>> THEN 0 ELSE Head(sb)[2] + TotalSeconds(Tail(sb))

\* C5: after any number of events of any calendars, the per-key totals sum
\* to the clipped durations of the processed events that pass the all-day
\* filter.  Holding after every iteration, it makes each event add exactly
\* its part inside the window: nothing without overlap, nothing for an
\* all-day event when counting is off, and once per calendar it is on.
C5_TotalsAreClippedDurations ==
    /\ TotalSeconds(seconds_by) = ExpectedSeconds(processed)
    /\ \A i \in 1..Len(processed) :
         /\ processed[i].outcome = "no_overlap" => SecondsInWindow(processed[i].evt) = 0
         /\ processed[i].outcome = "all_day_skipped" => Contribution(processed[i]) = 0
         /\ Contribution(processed[i]) <= 7 * Day

\* a run is done in which an event present on two calendars was counted
\* twice and an event outside the window added nothing
C5_Witness ==
    /\ pc = "done"
    /\ \E i, j \in 1..Len(processed) :
         /\ processed[i].cal = 1 /\ processed[j].cal = 2
         /\ processed[i].evt = processed[j].evt
         /\ processed[i].outcome = "counted" /\ processed[j].outcome = "counted"
         /\ TotalSeconds(seconds_by) = 2 * SecondsInWindow(processed[i].evt)
    /\ \E k \in 1..Len(processed) : processed[k].outcome = "no_overlap"

-----------------------------------------------------------------------------
(* Properties of the colour resolution (label-based script) *)

\* the hex of the calendar's default color, as main() looks it up
CalHexOf(entry) ==
    LET cid == calendars[entry.cal].colorId
    IN  IF cid = NoneVal \/ cid = "" \/ ~(\E i \in 1..Len(calendar_colors) :
                                            calendar_colors[i][1] = cid)
          THEN NoneHex
          ELSE calendar_colors[CHOOSE i \in 1..Len(calendar_colors) :
                                 calendar_colors[i][1] = cid][2]

\* the event passed the overlap and all-day filters, so a label is due
LabelDue(entry) == entry.outcome \in {"counted", "raised"}

HasListedColor(entry) == entry.evt.colorId \in DOMAIN CUSTOM_COLOR_NAMES

\* C6: an event whose explicit color id is in the label table gets that
\* id's label ("8" gives "Sleep"), whatever the calendar's default color
\* and the fetched color tables are.
C6_ExplicitColorWins ==
    \A i \in 1..Len(processed) :
        (variant = "simple" /\ LabelDue(processed[i]) /\ HasListedColor(processed[i])) =>
            /\ processed[i].outcome = "counted"
            /\ processed[i].key = CUSTOM_COLOR_NAMES[processed[i].evt.colorId]
            /\ processed[i].evt.colorId = "8" => processed[i].key = "Sleep"

\* an event of color "8" was labelled "Sleep" on a calendar whose default
\* hex is that of event color "3", with a malformed hex in the event table
C6_Witness ==
    /\ variant = "simple"
    /\ event_colors = EventBadFirst
    /\ \E i \in 1..Len(processed) :
         /\ processed[i].evt.colorId = "8"
         /\ calendars[processed[i].cal].colorId = "3"
         /\ processed[i].key = "Sleep"

\* a well-formed hex: after the leading "#"s, six hex digits
WellFormed(hx) ==
    /\ hx # NoneHex
    /\ \E k \in 0..Len(hx) :
         /\ \A i \in 1..k : hx[i] = "#"
         /\ Len(hx) = k + 6
         /\ \A i \in (k + 1)..(k + 6) : IsHexDigit(hx[i])

\* the entries of the event table that have a hex to measure
Candidates == {i \in 1..Len(event_colors) : WellFormed(event_colors[i][2])}

\* the label C7 names for a calendar hex: that of the first entry at the
\* least distance, "Miscellaneous" without a known hex on either side or
\* when the nearest id has no label
NearestLabel(hx) ==
    IF ~WellFormed(hx) \/ Candidates = {} THEN "Miscellaneous"
    ELSE LET p == hex_to_rgb(hx)
             d(i) == Dist(p, hex_to_rgb(event_colors[i][2]))
             best == CHOOSE i \in Candidates :
                        \A j \in Candidates : d(i) < d(j) \/ (d(i) = d(j) /\ i <= j)
             id == event_colors[best][1]
         IN  IF id \in DOMAIN CUSTOM_COLOR_NAMES THEN CUSTOM_COLOR_NAMES[id]
                                                 ELSE "Miscellaneous"

\* C7: an event without a listed explicit color is labelled by the event
\* table entry nearest (squared RGB distance, first entry on ties) to the
\* calendar's default hex, and "Miscellaneous" when no entry has a hex, the
\* nearest id has no label, or the calendar has no known default hex.
C7_NearestColorLabel ==
    \A i \in 1..Len(processed) :
        (variant = "simple" /\ LabelDue(processed[i]) /\ ~HasListedColor(processed[i])) =>
            /\ processed[i].outcome = "counted"
            /\ processed[i].key = NearestLabel(CalHexOf(processed[i]))

\* C7 where it is not touched by the exception of C8: with no malformed
\* hex in the event table the label is the one C7 names
C7_NearestColorLabelWellFormedTable ==
    \A i \in 1..Len(processed) :
        (/\ variant = "simple" /\ LabelDue(processed[i]) /\ ~HasListedColor(processed[i])
         /\ \A j \in 1..Len(event_colors) :
              Truthy(event_colors[j][2]) => WellFormed(event_colors[j][2])) =>
            /\ processed[i].outcome = "counted"
            /\ processed[i].key = NearestLabel(CalHexOf(processed[i]))

\* C8: a malformed hex is never fatal: color resolution completes, the run
\* goes on, and the event is labelled as if the malformed hex were absent.
C8_MalformedHexNotFatal ==
    \A i \in 1..Len(processed) :
        (variant = "simple" /\ LabelDue(processed[i])) =>
            /\ processed[i].outcome # "raised"
            /\ (~HasListedColor(processed[i]) /\ ~WellFormed(CalHexOf(processed[i]))) =>
                 processed[i].key = "Miscellaneous"

-----------------------------------------------------------------------------
(* Properties of fetching and reporting *)

\* the run was ended by an exception of the color resolution
LabelRaised == processed # <<>> /\ processed[Len(processed)].outcome = "raised"

\* C9: a failed events request does not end the run, in either script: the
\* only exception that ends a run is not one of fetching.
C9_FetchFailureNotFatal == pc = "aborted" => LabelRaised

\* the part of C9 that holds of the raw-color-id script: a run over a
\* calendar whose request fails still ends with the report
C9_WeeklySurvivesFetchFailure == variant = "weekly" => pc # "aborted"

\* C10: the printed total is the full-precision sum of seconds, in hours,
\* rounded once, and a row's percentage is 0 exactly when the total is 0.
C10_TotalRoundedOnce ==
    pc = "done" =>
        /\ total_hours = HoursRounded(TotalSeconds(seconds_by))
        /\ \A i \in 1..Len(rows) :
             percentage(rows[i][2], total_hours).num = 0 <=> TotalSeconds(seconds_by) = 0

-----------------------------------------------------------------------------
(* Algebra of the interval clipper *)

\* C11: the clipper is commutative in its two intervals and idempotent:
\* clipping [s,e) against [start,end) gives what clipping [start,end)
\* against [s,e) gives, and clipping a returned overlap against the same
\* window again returns it unchanged; for clip and for clamp_interval.
C11_ClipperCommutesAndIsIdempotent ==
    /\ (clip_out.clip # Unset /\ clip_out.clip_swapped # Unset) =>
         clip_out.clip_swapped = clip_out.clip
    /\ (clip_out.clamp # Unset /\ clip_out.clamp_swapped # Unset) =>
         clip_out.clamp_swapped = clip_out.clamp
    /\ clip_out.clip_again # Unset => clip_out.clip_again = clip_out.clip
    /\ clip_out.clamp_again # Unset => clip_out.clamp_again = clip_out.clamp

\* [0, 3) and [1, 4) were clipped in both orders and the overlap [1, 3)
\* was clipped again, by both clippers
C11_Witness ==
    /\ clip_in = [a |-> 0, b |-> 3, lo |-> 1, hi |-> 4]
    /\ clip_out.clip = [none |-> FALSE, s |-> 1, e |-> 3]
    /\ clip_out.clip_swapped = [none |-> FALSE, s |-> 1, e |-> 3]
    /\ clip_out.clip_again = [none |-> FALSE, s |-> 1, e |-> 3]
    /\ clip_out.clamp_swapped = [none |-> FALSE, s |-> 1, e |-> 3]
    /\ clip_out.clamp_again = [none |-> FALSE, s |-> 1, e |-> 3]

-----------------------------------------------------------------------------
(* Keys of the raw-color-id script *)

\* where the color of a counted event comes from
Origin(entry) ==
    IF entry.evt.colorId # NoneVal /\ entry.evt.colorId # "" THEN "event"
    ELSE IF calendars[entry.cal].colorId # NoneVal /\ calendars[entry.cal].colorId # ""
      THEN "calendar"
      ELSE "none"

\* the hex of that color in the palette it belongs to
OriginHex(entry) ==
    LET table == IF Origin(entry) = "event" THEN event_colors ELSE calendar_colors
        id == IF Origin(entry) = "event" THEN entry.evt.colorId
                                         ELSE calendars[entry.cal].colorId
    IN  IF Origin(entry) = "none" \/ ~(\E i \in 1..Len(table) : table[i][1] = id)
          THEN NoneHex
          ELSE table[CHOOSE i \in 1..Len(table) : table[i][1] = id][2]

\* C12: in the raw-color-id script every key denotes one color: time of
\* events with explicit event color id k and time of uncolored events on a
\* calendar of default color id k never share a key, and the color shown
\* for a key is the hex of the palette its time came from.
C12_KeyDenotesOneColor ==
    variant = "weekly" =>
        /\ \A i, j \in 1..Len(processed) :
             (/\ processed[i].outcome = "counted"
              /\ processed[j].outcome = "counted"
              /\ processed[i].key = processed[j].key) =>
                 Origin(processed[i]) = Origin(processed[j])
        /\ pc = "done" =>
             \A r \in 1..Len(rows) : \A i \in 1..Len(processed) :
                 (processed[i].outcome = "counted" /\ processed[i].key = rows[r][1]) =>
                     rows[r][3].hex = OriginHex(processed[i])

\* the part of C12 that holds: time of an explicit event color and time of
\* a calendar default share a key only when the two ids are the same string
C12_KeysMixOnlyOnEqualIds ==
    variant = "weekly" =>
        \A i, j \in 1..Len(processed) :
            (/\ processed[i].outcome = "counted"
             /\ processed[j].outcome = "counted"
             /\ processed[i].key = processed[j].key
             /\ Origin(processed[i]) = "event"
             /\ Origin(processed[j]) = "calendar") =>
                processed[i].evt.colorId = calendars[processed[j].cal].colorId

====
